---- MODULE Spec2Model ----
(***************************************************************************)
(* Model of the ingestion pipeline of queimadas_monitor:                   *)
(*   data_collection/collector.py  fetch_daily_fire_csv,                   *)
(*                                 fetch_10min_fire_csv,                   *)
(*                                 fetch_all_10min_slots_for_day           *)
(*   app.py                        load_data, fetch_data_for_range,        *)
(*                                 load_and_combine_10min_data_for_days    *)
(* and of its risk classifier:                                             *)
(*   risk_assessment/assessor.py   load_biomes_data,                       *)
(*                                 get_biome_from_lat_lon,                 *)
(*                                 assess_foco_criticidade,                *)
(*                                 aplica_avaliacao_risco_df               *)
(* Spec and LiveSpec run the pipeline, ClassifySpec runs the classifier.   *)
(* One behaviour is one batch (one call of fetch_data_for_range or of      *)
(* fetch_all_10min_slots_for_day) run by a process whose raw-data          *)
(* directory and load_data cache may already hold what earlier batches     *)
(* of the same keys left there.  DirectSpec runs one call of               *)
(* fetch_10min_fire_csv, AggSpec one call of                               *)
(* load_and_combine_10min_data_for_days over a list of days, SortSpec the  *)
(* part of the two aggregations that follows the fetches.                  *)
(***************************************************************************)
EXTENDS Integers, Sequences, FiniteSets, TLC

(***************************************************************************)
(* Bounds of the model.                                                    *)
(***************************************************************************)
\* longest date range requested (num_days of fetch_data_for_range)
MaxDays == 2
\* number of 10-minute slots of the day that are enumerated (prefix of the
\* 144 slots the nested loop of fetch_all_10min_slots_for_day produces)
MaxSlots == 2
\* the calls of one fetch are counted up to this number
MaxCalls == 2
\* most slot fetches of one 10-minute aggregation: days of days_list times
\* slots enumerated per day
MaxFetches == 4

(***************************************************************************)
(* Program constants.                                                      *)
(***************************************************************************)
HoursPerDay == 24
MinutesPerHour == 60
SlotStep == 10
RAW_DATA_DIR == "output_data/raw/"

(***************************************************************************)
(* Dates: datetime.date, timedelta(days=i) and strftime.                   *)
(***************************************************************************)
\* first selectable day of the model's calendar window: 2023-12-31, so that
\* a range crosses a month and a year boundary
BaseDate == [year |-> 2023, month |-> 12, day |-> 31]

IsLeap(y) == (y % 4 = 0 /\ y % 100 # 0) \/ y % 400 = 0

DaysInMonth(y, m) ==
    IF m = 2 THEN (IF IsLeap(y) THEN 29 ELSE 28)
    ELSE IF m \in {4, 6, 9, 11} THEN 30 ELSE 31

\* d + timedelta(days=1)
NextDay(d) ==
    IF d.day < DaysInMonth(d.year, d.month)
    THEN [d EXCEPT !.day = d.day + 1]
    ELSE IF d.month < 12
         THEN [year |-> d.year, month |-> d.month + 1, day |-> 1]
         ELSE [year |-> d.year + 1, month |-> 1, day |-> 1]

RECURSIVE AddDays(_, _)
\* d + timedelta(days=n), n >= 0
AddDays(d, n) == IF n = 0 THEN d ELSE AddDays(NextDay(d), n - 1)

RECURSIVE Pad(_, _)
\* decimal digits of n, zero-padded to width w (strftime %Y, %m, %d, %H, %M)
Pad(n, w) == IF w = 0 THEN <<>> ELSE Pad(n \div 10, w - 1) \o <<n % 10>>

\* target_date.strftime("%Y%m%d")
DateStr(d) == Pad(d.year, 4) \o Pad(d.month, 2) \o Pad(d.day, 2)

\* variant of TimeStr that formats the hour alone ("%H")
TimeStr_hour_only(hour, minute) == Pad(hour, 2)

\* target_datetime.strftime("%H%M")
TimeStr(hour, minute) == Pad(hour, 2) \o Pad(minute, 2)

(***************************************************************************)
(* Resource names and local paths.  A file name is the sequence of its     *)
(* parts: prefix, digits, suffix.                                          *)
(***************************************************************************)
\* f"focos_diario_br_{date_str_url}.csv"
DailyFileName(d) == <<"focos_diario_br_">> \o DateStr(d) \o <<".csv">>

\* f"focos_10min_{date_str_url}_{time_str_url}.csv"
TenMinFileName(d, hour, minute) ==
    <<"focos_10min_">> \o DateStr(d) \o <<"_">> \o TimeStr(hour, minute) \o <<".csv">>

\* os.path.join(RAW_DATA_DIR, file_name)
LocalPath(fileName) == <<RAW_DATA_DIR>> \o fileName

(***************************************************************************)
(* The batch request and its units of work.                                *)
(***************************************************************************)
\* number of values of range(0, MinutesPerHour, SlotStep)
SlotsPerHour == (MinutesPerHour + SlotStep - 1) \div SlotStep

Min(a, b) == IF a < b THEN a ELSE b

\* slots the nested loops enumerate, cut to the model's bound
NumSlots == Min(MaxSlots, HoursPerDay * SlotsPerHour)

\* k-th (k >= 1) pair <<hour, minute>> of
\*   for hour in range(24): for minute in range(0, 60, 10)
SlotOf(k) == <<(k - 1) \div SlotsPerHour, ((k - 1) % SlotsPerHour) * SlotStep>>

\* requests the dashboard can make: a validated date range inside the
\* calendar window, or all slots of one day of the window
Requests ==
    { [kind |-> "range", start |-> s, n |-> e - s + 1] :
          <<s, e>> \in { se \in (0 .. MaxDays - 1) \X (0 .. MaxDays - 1) : se[1] <= se[2] } }
    \cup { [kind |-> "slots", start |-> s, n |-> NumSlots] : s \in {0} }

\* a single call fetch_10min_fire_csv(target_datetime, session) outside
\* the slot loop: start is target_datetime in minutes from the first
\* midnight of the window, at a slot boundary or off it
MinutesPerDay == HoursPerDay * MinutesPerHour
DirectTimes == {0, 5, SlotStep, SlotStep + 7, MinutesPerHour, MinutesPerDay - 1,
                MinutesPerDay + 2 * SlotStep}
DirectRequests == { [kind |-> "at", start |-> m, n |-> 1] : m \in DirectTimes }

\* date of task t of request r: start_date + timedelta(days=i), or target_date
TaskDate(r, t) ==
    IF r.kind = "range" THEN AddDays(AddDays(BaseDate, r.start), t - 1)
    ELSE IF r.kind = "at" THEN AddDays(BaseDate, r.start \div MinutesPerDay)
    ELSE AddDays(BaseDate, r.start)

\* <<hour, minute>> of the target_datetime of 10-minute task t of request r
TaskTime(r, t) ==
    IF r.kind = "at"
    THEN <<(r.start % MinutesPerDay) \div MinutesPerHour, r.start % MinutesPerHour>>
    ELSE SlotOf(t)

\* file name task t of request r downloads
TaskFileName(r, t) ==
    IF r.kind = "range" THEN DailyFileName(TaskDate(r, t))
    ELSE TenMinFileName(TaskDate(r, t), TaskTime(r, t)[1], TaskTime(r, t)[2])

\* local_file_path of task t of request r
TaskPath(r, t) == LocalPath(TaskFileName(r, t))

Tasks(r) == 1 .. r.n

(***************************************************************************)
(* File contents.  A file is a sequence of lines; a chunk of the transfer  *)
(* is one line.                                                            *)
(***************************************************************************)
NoFile == <<[kind |-> "absent", n |-> 0, datahora |-> 0]>>
Header == [kind |-> "header", n |-> 0, datahora |-> 0]
Junk == [kind |-> "junk", n |-> 0, datahora |-> 0]

\* number of the resource task t of request r asks for: the day of the
\* window for a daily file, 100 + the slot (counted through the days of
\* the window) for a 10-minute file of the slot loop, 1000 + the minute
\* for a 10-minute file asked for by itself
KeyId(r, t) ==
    IF r.kind = "range" THEN r.start + t
    ELSE IF r.kind = "at" THEN 1000 + r.start
    ELSE 100 + NumSlots * r.start + t

\* n-th data row of resource k; its timestamp grows with k and n
Row(k, n) == [kind |-> "row", n |-> 10 * k + n, datahora |-> 10 * k + n]

\* bodies the remote archive can answer a successful request with: nothing,
\* a header alone, a header and two rows, bytes that are not a CSV table
Bodies(k) == { <<>>, <<Header>>, <<Header, Row(k, 1), Row(k, 2)>>, <<Junk>> }

\* text of the timestamp column that is no date
BadTime == 0 - 1

\* n-th data row of resource k, with a timestamp that cannot be parsed
BadRow(k, n) == [kind |-> "row", n |-> 10 * k + n, datahora |-> BadTime]

\* what an earlier complete download of the same key left at its path
OldFile(k) == <<Header, Row(k, 0)>>

(***************************************************************************)
(* pandas.read_csv and load_data.                                          *)
(***************************************************************************)
\* load_data, lines 38-45: pd.to_datetime raises for the whole column when
\* one text of it is no date; the exception is caught and the column stays
\* as it was read
to_datetime_raises(lines) ==
    \E i \in 1 .. Len(lines) : lines[i].datahora = BadTime

RECURSIVE TypedRows(_, _)
\* rows of a well-formed table, datahora renamed to event_datetime, each
\* cell of that column of the given type
TypedRows(lines, type) ==
    IF lines = <<>> THEN <<>>
    ELSE <<[n |-> Head(lines).n, event_datetime |-> Head(lines).datahora, type |-> type]>>
         \o TypedRows(Tail(lines), type)

\* the rows as load_data has them: Timestamps if the column converts,
\* the texts as read if it does not
ParseRows(lines) ==
    IF to_datetime_raises(lines) THEN TypedRows(lines, "str")
    ELSE TypedRows(lines, "Timestamp")

\* pd.read_csv(path [, nrows=k]): "EmptyDataError" for a file without
\* columns, "ParserError" for bytes that are no table, else the first
\* nrows rows after the header (nrows < 0: all rows)
read_csv(content, nrows) ==
    IF content = NoFile THEN [tag |-> "FileNotFoundError", rows |-> <<>>]
    ELSE IF content = <<>> THEN [tag |-> "EmptyDataError", rows |-> <<>>]
    ELSE IF Head(content).kind # "header" THEN [tag |-> "ParserError", rows |-> <<>>]
    ELSE LET body == Tail(content)
             k == IF nrows < 0 THEN Len(body) ELSE Min(nrows, Len(body))
         IN [tag |-> "df", rows |-> ParseRows(SubSeq(body, 1, k))]

\* body of load_data: the frame, or None with the message shown to the user
load_data_uncached(content) ==
    LET r == read_csv(content, -1)
    IN IF r.tag = "df"
       THEN [tag |-> "df", rows |-> r.rows,
             msg |-> IF to_datetime_raises(content)
                     THEN "warning: Could not convert 'event_datetime' column to datetime"
                     ELSE "none"]
       ELSE IF r.tag = "FileNotFoundError"
            THEN [tag |-> "None", rows |-> <<>>, msg |-> "error: CSV file not found"]
       ELSE IF r.tag = "EmptyDataError"
            THEN [tag |-> "None", rows |-> <<>>, msg |-> "warning: The CSV file is empty"]
       ELSE [tag |-> "None", rows |-> <<>>, msg |-> "error: Error loading CSV"]

\* no entry of the st.cache_data cache of load_data
NoEntry == [tag |-> "miss", rows |-> <<>>, msg |-> "none"]

\* @st.cache_data load_data(csv_path): the entry stored for the path by an
\* earlier call if there is one, else the parse of the file as it is now
load_data(entry, content) ==
    IF entry # NoEntry THEN entry ELSE load_data_uncached(content)

(***************************************************************************)
(* Risk classification: config.py and risk_assessment/assessor.py.         *)
(* Names are written without diacritics: "Amazonia" is the biome           *)
(* "Amaz\^onia" of SENSITIVE_BIOMES, "Critico" the label "Cr\'itico".      *)
(***************************************************************************)
\* polygons of the longest biome dataset
MaxPolys == 2
\* cap on the reads of the dataset a behaviour may count
MaxReads == 2

\* FRP values are counted in hundredths of a megawatt, the resolution of
\* the format {frp_valor:.2f} of the FRP reason
FrpUnit == 100
RISK_FRP_THRESHOLD == 75 * FrpUnit
SENSITIVE_BIOMES == {"Amazonia", "Mata Atlantica", "Cerrado", "Pantanal"}
\* the literal list ["Amazonia", "Pantanal"] of the biome criterion
HighestSensitivity == {"Amazonia", "Pantanal"}
BIOME_NAME_COLUMN == "nom_bioma"

\* a cell of a row: missing (NaN / pd.NA), a number, or a string
NA == [kind |-> "na", v |-> 0, s |-> ""]
Num(v) == [kind |-> "num", v |-> v, s |-> ""]
Str(s) == [kind |-> "str", v |-> 0, s |-> s]
\* the row has no such column
Absent == [kind |-> "absent", v |-> 0, s |-> ""]

\* 'col' in foco and pd.notna(foco['col'])
notna(cell) == cell.kind \in {"num", "str"}

\* the value None of Python, as a biome
NoneBiome == "<None>"
\* truth value of a biome name in "if determined_biome:"
Truthy(b) == b # NoneBiome /\ b # ""

\* points (lon, lat) in WGS84
PA == <<-60, -3>>
PB == <<-47, -15>>
PC == <<-53, -30>>
PD == <<-30, 0>>

\* a geometry is the set of points that are within it, or it is null
Geometry(pts) == [null |-> FALSE, pts |-> pts]
NullGeometry == [null |-> TRUE, pts |-> {}]
Feature(name, g) == [nom_bioma |-> name, geometry |-> g]

\* features a biome dataset is made of: two polygons that overlap in PB, a
\* polygon of a biome that is not sensitive, a feature without geometry
FeaturePool ==
    { Feature("Amazonia", Geometry({PA, PB})),
      Feature("Cerrado", Geometry({PB})),
      Feature("Pampa", Geometry({PC})),
      Feature("Pantanal", NullGeometry) }

RECURSIVE SeqsUpTo(_, _)
\* sequences over S of length at most n
SeqsUpTo(S, n) ==
    IF n = 0 THEN { <<>> }
    ELSE LET shorter == SeqsUpTo(S, n - 1)
         IN shorter \cup { Append(q, x) : q \in shorter, x \in S }

\* coordinates of a point in a coordinate reference system: the projected
\* system counts in tenths of the WGS84 unit
CrsScale(crs) == IF crs = "projected" THEN 10 ELSE 1
FromWGS84(crs, p) == <<p[1] * CrsScale(crs), p[2] * CrsScale(crs)>>
ToWGS84(crs, p) == <<p[1] \div CrsScale(crs), p[2] \div CrsScale(crs)>>

\* GeoDataFrame.to_crs("EPSG:4326") of rows stored in crs
to_crs(rows, crs) ==
    [i \in 1 .. Len(rows) |->
        [rows[i] EXCEPT !.geometry.pts = { ToWGS84(crs, p) : p \in @ }]]

\* the rows as a file in crs stores them
StoredIn(rows, crs) ==
    [i \in 1 .. Len(rows) |->
        [rows[i] EXCEPT !.geometry.pts = { FromWGS84(crs, p) : p \in @ }]]

\* what can be found at BIOMES_FILE_PATH: nothing, a file geopandas cannot
\* read, or a readable file: its CRS ("none", "EPSG:4326", "projected"),
\* its columns and its features
NoDataset == [kind |-> "missing", crs |-> "none", columns |-> {}, rows |-> <<>>]
Malformed == [kind |-> "malformed", crs |-> "none", columns |-> {}, rows |-> <<>>]
Datasets ==
    {NoDataset, Malformed}
    \cup { [kind |-> "readable", crs |-> crs, columns |-> {"geometry", "name"},
            rows |-> StoredIn(<<Feature("Amazonia", Geometry({PA, PB}))>>, crs)] :
           crs \in {"EPSG:4326"} }
    \cup { [kind |-> "readable", crs |-> crs,
            columns |-> {"geometry", BIOME_NAME_COLUMN},
            rows |-> StoredIn(rows, crs)] :
           crs \in {"none", "EPSG:4326", "projected"},
           rows \in SeqsUpTo(FeaturePool, MaxPolys) }

\* values of BIOMES_GDF: None (line 23), geopandas.GeoDataFrame(), a frame
NoneGdf == [loaded |-> FALSE, crs |-> "none", columns |-> {}, rows |-> <<>>]
EmptyGdf == [loaded |-> TRUE, crs |-> "none", columns |-> {}, rows |-> <<>>]
\* BIOMES_GDF.empty
empty(gdf) == gdf.rows = <<>>

(***************************************************************************)
(* load_biomes_data.                                                       *)
(***************************************************************************)
\* variant of NeedsLoad that also reloads an index that came out empty
NeedsLoad_when_empty(gdf) == gdf = NoneGdf \/ empty(gdf)

\* line 29: if BIOMES_GDF is None
NeedsLoad(gdf) == gdf = NoneGdf

\* geopandas.read_file: the frame of the file, or an exception
read_file(ds) ==
    IF ds.kind = "readable"
    THEN [tag |-> "gdf",
          gdf |-> [loaded |-> TRUE, crs |-> ds.crs, columns |-> ds.columns,
                   rows |-> ds.rows]]
    ELSE [tag |-> "error", gdf |-> NoneGdf]

\* lines 46-51: a frame without CRS is declared to be WGS84, a frame in
\* another CRS is converted
InWGS84(g) ==
    IF g.crs = "none" THEN [g EXCEPT !.crs = "EPSG:4326"]
    ELSE IF g.crs # "EPSG:4326"
         THEN [g EXCEPT !.crs = "EPSG:4326", !.rows = to_crs(@, g.crs)]
         ELSE g

\* variant of NameColumnChecked that keeps a frame without the name column
NameColumnChecked_kept(g) == g

\* lines 54-57: a frame without the name column is replaced by an empty one
NameColumnChecked(g) ==
    IF BIOME_NAME_COLUMN \notin g.columns THEN EmptyGdf ELSE g

\* one call of load_biomes_data with the global holding gdf and the file
\* system holding ds: the new global, the reads made, how the call ended
load_biomes_data(gdf, ds) ==
    IF ~NeedsLoad(gdf) THEN [gdf |-> gdf, read |-> 0, status |-> "cached"]
    ELSE IF ds.kind = "missing"
         THEN [gdf |-> EmptyGdf, read |-> 0, status |-> "loaded"]
         ELSE LET r == read_file(ds)
              IN IF r.tag = "error"
                 THEN [gdf |-> EmptyGdf, read |-> 1, status |-> "loaded"]
                 ELSE [gdf |-> NameColumnChecked(InWGS84(r.gdf)), read |-> 1,
                       status |-> "loaded"]

(***************************************************************************)
(* get_biome_from_lat_lon.                                                 *)
(***************************************************************************)
\* Point(lon, lat)
Point(lon, lat) == <<lon.v, lat.v>>

RECURSIVE FirstMatch(_, _, _, _, _)
\* lines 78-86, the loop over BIOMES_GDF.iterrows() from row i on, after
\* tests tests of point.within: the name of the first row whose geometry
\* the point is within.  point.within(None) raises in shapely 1.x
\* (nullRaises) and is False in shapely 2.x; the exception ends the loop
\* and None is returned.
FirstMatch(rows, i, point, nullRaises, tests) ==
    IF i > Len(rows) THEN [biome |-> NoneBiome, tests |-> tests]
    ELSE LET g == rows[i].geometry
         IN IF g.null
            THEN IF nullRaises THEN [biome |-> NoneBiome, tests |-> tests + 1]
                 ELSE FirstMatch(rows, i + 1, point, nullRaises, tests + 1)
            ELSE IF point \in g.pts
                 THEN [biome |-> rows[i][BIOME_NAME_COLUMN], tests |-> tests + 1]
                 ELSE FirstMatch(rows, i + 1, point, nullRaises, tests + 1)

\* the biome name or None, and the number of polygons tested
get_biome_from_lat_lon(gdf, lat, lon, nullRaises) ==
    IF gdf = NoneGdf \/ empty(gdf) THEN [biome |-> NoneBiome, tests |-> 0]
    ELSE IF ~notna(lat) \/ ~notna(lon) THEN [biome |-> NoneBiome, tests |-> 0]
    ELSE IF lat.kind # "num" \/ lon.kind # "num"
         THEN [biome |-> NoneBiome, tests |-> 0]
         ELSE FirstMatch(gdf.rows, 1, Point(lon, lat), nullRaises, 0)

(***************************************************************************)
(* assess_foco_criticidade.                                                *)
(***************************************************************************)
Max(a, b) == IF a > b THEN a ELSE b

\* {frp_valor:.2f}: the integer part and two decimals
Format2(v) == <<v \div FrpUnit, v % FrpUnit>>

\* the reason strings
NoValue == <<>>
GeoReason(b) == [kind |-> "geolocalizacao", bioma |-> b, valor |-> NoValue]
FrpReason(v) == [kind |-> "frp_elevado", bioma |-> "", valor |-> Format2(v)]
SensitiveReason(b) == [kind |-> "bioma_sensivel", bioma |-> b, valor |-> NoValue]
Placeholder == [kind |-> "detalhe_nao_especificado", bioma |-> "", valor |-> NoValue]
NoCriterion == [kind |-> "nenhum_criterio", bioma |-> "", valor |-> NoValue]

\* lines 111-112: the reason recorded when the lookup found a biome
GeoReasons(found) ==
    IF Truthy(found.biome) THEN <<GeoReason(found.biome)>> ELSE <<>>

\* variant of FrpStep whose High branch needs more than the threshold,
\* while the Medium branch ends below it
FrpStep_strict(frp, st) ==
    IF ~notna(frp) THEN st
    ELSE IF frp.kind # "num" THEN st
    ELSE IF frp.v > RISK_FRP_THRESHOLD
         THEN [nivel |-> Max(st.nivel, 2),
               razoes |-> Append(st.razoes, FrpReason(frp.v))]
         ELSE IF 2 * frp.v >= RISK_FRP_THRESHOLD /\ frp.v < RISK_FRP_THRESHOLD
              THEN [st EXCEPT !.nivel = Max(@, 1)]
              ELSE st

\* variant of FrpStep that compares with the threshold only
FrpStep_threshold_only(frp, st) ==
    IF notna(frp) /\ frp.kind = "num" /\ frp.v >= RISK_FRP_THRESHOLD
    THEN [nivel |-> Max(st.nivel, 2), razoes |-> Append(st.razoes, FrpReason(frp.v))]
    ELSE st

\* variant of FrpStep that lets the ValueError of float() count as a finding
FrpStep_malformed_reported(frp, st) ==
    IF ~notna(frp) THEN st
    ELSE IF frp.kind # "num"
         THEN [nivel |-> Max(st.nivel, 1), razoes |-> Append(st.razoes, Placeholder)]
    ELSE IF frp.v >= RISK_FRP_THRESHOLD
         THEN [nivel |-> Max(st.nivel, 2),
               razoes |-> Append(st.razoes, FrpReason(frp.v))]
         ELSE IF 2 * frp.v >= RISK_FRP_THRESHOLD
              THEN [st EXCEPT !.nivel = Max(@, 1)]
              ELSE st

\* lines 115-124, criterion 1, applied to st = [nivel, razoes]; float() of
\* a string that is no number raises ValueError, which is passed over
FrpStep(frp, st) ==
    IF ~notna(frp) THEN st
    ELSE IF frp.kind # "num" THEN st
    ELSE IF frp.v >= RISK_FRP_THRESHOLD
         THEN [nivel |-> Max(st.nivel, 2),
               razoes |-> Append(st.razoes, FrpReason(frp.v))]
         ELSE IF 2 * frp.v >= RISK_FRP_THRESHOLD
              THEN [st EXCEPT !.nivel = Max(@, 1)]
              ELSE st

\* variant of BiomeStep that makes every sensitive biome critical at High
BiomeStep_all_critical(b, st) ==
    IF Truthy(b) /\ b \in SENSITIVE_BIOMES
    THEN [nivel |-> IF st.nivel >= 2 THEN 3 ELSE Max(st.nivel, 1),
          razoes |-> IF \E i \in 1 .. Len(st.razoes) : st.razoes[i] = GeoReason(b)
                     THEN st.razoes ELSE Append(st.razoes, SensitiveReason(b))]
    ELSE st

\* lines 127-136, criterion 2, for the determined biome b
BiomeStep(b, st) ==
    IF Truthy(b) /\ b \in SENSITIVE_BIOMES
    THEN [nivel |-> IF st.nivel >= 2 /\ b \in HighestSensitivity
                    THEN Max(st.nivel, 3) ELSE Max(st.nivel, 1),
          razoes |-> IF \E i \in 1 .. Len(st.razoes) : st.razoes[i] = GeoReason(b)
                     THEN st.razoes ELSE Append(st.razoes, SensitiveReason(b))]
    ELSE st

\* lines 139-146
Label(nivel) ==
    IF nivel = 3 THEN "Critico"
    ELSE IF nivel = 2 THEN "Alto"
    ELSE IF nivel = 1 THEN "Medio"
    ELSE "Baixo"

\* variant of FinalReasons that adds nothing
FinalReasons_bare(st) == st.razoes

\* lines 148-151
FinalReasons(st) ==
    IF st.razoes = <<>> /\ st.nivel > 0 THEN <<Placeholder>>
    ELSE IF st.razoes = <<>> /\ st.nivel = 0 THEN <<NoCriterion>>
    ELSE st.razoes

\* variant of DetermineBiome that never asks the index
DetermineBiome_explicit_only(row, gdf, nullRaises) ==
    [biome |-> IF notna(row.bioma) THEN row.bioma.s ELSE NoneBiome,
     lookups |-> 0, tests |-> 0, razoes |-> <<>>]

\* lines 106-112: the determined biome, the lookups made, the reasons so far
DetermineBiome(row, gdf, nullRaises) ==
    IF notna(row.bioma)
    THEN [biome |-> row.bioma.s, lookups |-> 0, tests |-> 0, razoes |-> <<>>]
    ELSE IF notna(row.lat) /\ notna(row.lon)
         THEN LET found == get_biome_from_lat_lon(gdf, row.lat, row.lon, nullRaises)
              IN [biome |-> found.biome, lookups |-> 1, tests |-> found.tests,
                  razoes |-> GeoReasons(found)]
         ELSE [biome |-> NoneBiome, lookups |-> 0, tests |-> 0, razoes |-> <<>>]

\* the label and the reasons returned, with the numeric level and the
\* number of lookups made on the way
assess_foco_criticidade(row, gdf, nullRaises) ==
    LET d == DetermineBiome(row, gdf, nullRaises)
        s1 == FrpStep(row.frp, [nivel |-> 0, razoes |-> d.razoes])
        s2 == BiomeStep(d.biome, s1)
    IN [criticidade |-> Label(s2.nivel), nivel |-> s2.nivel,
        razoes |-> FinalReasons(s2), determined_biome |-> d.biome,
        lookups |-> d.lookups]

\* rows of the frames handed to aplica_avaliacao_risco_df
FrpValues ==
    { RISK_FRP_THRESHOLD \div 2 - 1, RISK_FRP_THRESHOLD \div 2,
      RISK_FRP_THRESHOLD - 1, RISK_FRP_THRESHOLD, RISK_FRP_THRESHOLD + 512 }
FrpCells == {NA, Str("abc")} \cup { Num(v) : v \in FrpValues }
BiomaCells ==
    {Absent, NA, Str(""), Str("Amazonia"), Str("Pantanal"), Str("Cerrado"), Str("Pampa")}
Coords ==
    { [lat |-> NA, lon |-> NA], [lat |-> Num(PA[2]), lon |-> NA] }
    \cup { [lat |-> Num(p[2]), lon |-> Num(p[1])] : p \in {PA, PB, PC, PD} }
Rows ==
    { [frp |-> f, lat |-> c.lat, lon |-> c.lon, bioma |-> b] :
      f \in FrpCells, c \in Coords, b \in BiomaCells }

NoRow == [frp |-> NA, lat |-> NA, lon |-> NA, bioma |-> Absent]
NoAvaliacao ==
    [criticidade |-> "", nivel |-> 0, razoes |-> <<>>, determined_biome |-> NoneBiome,
     lookups |-> 0]

(***************************************************************************)
(* State.                                                                  *)
(***************************************************************************)
VARIABLES
    req,      \* the request being served
    files,    \* local storage: path -> content
    files0,   \* local storage as it was when the batch began
    cache,    \* st.cache_data entries of load_data: path -> entry
    phase,    \* "idle", "gather", "check", "returned", "raised"
    pc,       \* per fetch task: "new", "req", "body", "done"
    conn,     \* per task: body being transferred and chunks written so far
    result,   \* per task: what the coroutine returned or raised
    outcome,  \* per task: how its fetch ended (FetchOutcome class)
    late,     \* whether some task completed before a task listed before it
    gathered, \* asyncio.gather: the results collected so far, and whether
              \* an exception was raised into the awaiting caller
    results,  \* the list asyncio.gather handed back
    idx,      \* next element of results the slot check looks at
    kept,     \* downloaded_files_with_data
    ret,      \* value the batch returned
    report,   \* messages the batch showed to the user, in order
    calls,    \* per task: calls of os.makedirs and of session.get it made
    agg       \* load_and_combine_10min_data_for_days: length of days_list,
              \* index of the day being processed (0: not running), all_10min_dfs

\* state of risk_assessment/assessor.py
VARIABLES
    dataset,     \* the biome polygon file found at BIOMES_FILE_PATH
    shapely,     \* how the installed shapely answers within(null geometry)
    BIOMES_GDF,  \* the module global: None or the loaded GeoDataFrame
    reads,       \* number of calls of geopandas.read_file so far
    loadStatus,  \* how the last load call ended: "none", "loaded", "cached", "raised"
    stage,       \* "idle", "assessed", "enriched": progress on the current row
    foco,        \* the row of the frame that is being classified
    avaliacao,   \* what assess_foco_criticidade returned for foco
    lookups,     \* calls of get_biome_from_lat_lon made for foco so far
    geo          \* determined_biome_geo of foco

fetchVars == <<req, files, files0, cache, phase, pc, conn, result, outcome,
               late, gathered, results, idx, kept, ret, report, calls, agg>>

clsVars == <<dataset, shapely, BIOMES_GDF, reads, loadStatus, stage, foco,
             avaliacao, lookups, geo>>

vars == <<fetchVars, clsVars>>

\* the classifier before its module is imported
ClassifierOff ==
    /\ dataset = NoDataset
    /\ shapely = "2.x"
    /\ BIOMES_GDF = NoneGdf
    /\ reads = 0
    /\ loadStatus = "none"
    /\ stage = "idle"
    /\ foco = NoRow
    /\ avaliacao = NoAvaliacao
    /\ lookups = 0
    /\ geo = NoneBiome

\* values of result[t]
Pending == [tag |-> "pending", path |-> <<>>]
None == [tag |-> "None", path |-> <<>>]
Raised == [tag |-> "exception", path |-> <<>>]
PathResult(p) == [tag |-> "str", path |-> p]

NoConn == [body |-> <<>>, sent |-> 0]
NoCalls == [makedirs |-> 0, get |-> 0]
NoAgg == [days |-> 0, day |-> 0, dfs |-> <<>>]
NoRet == [tag |-> "pending", rows |-> <<>>, paths |-> <<>>]

Paths(r) == { TaskPath(r, t) : t \in Tasks(r) }

\* task of request r that downloads to path p
TaskOfPath(r, p) == CHOOSE t \in Tasks(r) : TaskPath(r, t) = p

\* The raw-data directory holds, for each key of the request, nothing or
\* the complete file of an earlier download; the cache of load_data holds,
\* for a daily path that has a file, nothing (the file is from an earlier
\* process) or the parse of that file (an earlier batch of this process
\* downloaded and loaded it).
Init ==
    /\ req \in Requests
    /\ files \in { [p \in Paths(req) |->
                       IF p \in S THEN OldFile(KeyId(req, TaskOfPath(req, p))) ELSE NoFile] :
                   S \in SUBSET Paths(req) }
    /\ files0 = files
    /\ cache \in { [p \in Paths(req) |->
                       IF p \in S THEN load_data_uncached(files[p]) ELSE NoEntry] :
                   S \in (IF req.kind = "range"
                          THEN SUBSET { p \in Paths(req) : files[p] # NoFile }
                          ELSE {{}}) }
    /\ phase = "idle"
    /\ pc = [t \in Tasks(req) |-> "new"]
    /\ conn = [t \in Tasks(req) |-> NoConn]
    /\ result = [t \in Tasks(req) |-> Pending]
    /\ outcome = [t \in Tasks(req) |-> "pending"]
    /\ late = FALSE
    /\ gathered = [raised |-> FALSE, results |-> [t \in Tasks(req) |-> Pending]]
    /\ results = <<>>
    /\ idx = 1
    /\ kept = <<>>
    /\ ret = NoRet
    /\ report = <<>>
    /\ calls = [t \in Tasks(req) |-> NoCalls]
    /\ agg = NoAgg
    /\ ClassifierOff

(***************************************************************************)
(* asyncio.gather with return_exceptions=True.                             *)
(***************************************************************************)
\* variant of gather without return_exceptions: an exception of a task is
\* raised into the awaiting caller
gather_fail_fast(g, t, r) ==
    [raised |-> g.raised \/ r.tag = "exception",
     results |-> [g.results EXCEPT ![t] = r]]

\* variant of gather that lists the results as the tasks complete
gather_completion_order(g, t, r) ==
    [raised |-> g.raised,
     results |-> [g.results EXCEPT
                     ![CHOOSE i \in 1 .. Len(g.results) :
                          /\ g.results[i].tag = "pending"
                          /\ \A j \in 1 .. i - 1 : g.results[j].tag # "pending"] = r]]

\* task t, the t-th argument, completes with r (a returned value or an
\* exception): r becomes the t-th element of the list, nothing is raised
gather(g, t, r) ==
    [raised |-> g.raised,
     results |-> [g.results EXCEPT ![t] = r]]

(***************************************************************************)
(* One fetch task: fetch_daily_fire_csv / fetch_10min_fire_csv.            *)
(***************************************************************************)
\* the coroutine of task t ends with result r; what happened is class o
Finish(t, r, o) ==
    /\ pc' = [pc EXCEPT ![t] = "done"]
    /\ result' = [result EXCEPT ![t] = r]
    /\ outcome' = [outcome EXCEPT ![t] = o]
    /\ late' = (late \/ \E u \in Tasks(req) : u < t /\ pc[u] # "done")
    /\ gathered' = gather(gathered, t, r)
    /\ conn' = [conn EXCEPT ![t] = NoConn]

\* variant of FetchStart that makes the raw-data directory before it looks
\* at the minute
FetchStart_dir_first(t) ==
    /\ phase \in {"gather", "await"}
    /\ pc[t] = "new"
    /\ IF req.kind # "range" /\ TaskTime(req, t)[2] % 10 # 0
       THEN /\ Finish(t, None, "Invalid")
            /\ calls' = [calls EXCEPT ![t].makedirs = Min(@ + 1, MaxCalls)]
       ELSE /\ pc' = [pc EXCEPT ![t] = "req"]
            /\ calls' = [calls EXCEPT ![t] = [makedirs |-> Min(@.makedirs + 1, MaxCalls),
                                             get |-> Min(@.get + 1, MaxCalls)]]
            /\ UNCHANGED <<result, outcome, late, gathered, conn>>
    /\ UNCHANGED clsVars
    /\ UNCHANGED agg
    /\ UNCHANGED <<req, files, files0, cache, phase, results, idx, kept, ret, report>>

\* the coroutine runs up to its first suspension: the minute check of the
\* 10-minute fetch, ensure_dir, session.get
FetchStart(t) ==
    /\ phase \in {"gather", "await"}
    /\ pc[t] = "new"
    /\ IF req.kind # "range" /\ TaskTime(req, t)[2] % 10 # 0
       THEN /\ Finish(t, None, "Invalid")
            /\ UNCHANGED calls
       ELSE /\ pc' = [pc EXCEPT ![t] = "req"]
            /\ calls' = [calls EXCEPT ![t] = [makedirs |-> Min(@.makedirs + 1, MaxCalls),
                                             get |-> Min(@.get + 1, MaxCalls)]]
            /\ UNCHANGED <<result, outcome, late, gathered, conn>>
    /\ UNCHANGED clsVars
    /\ UNCHANGED agg
    /\ UNCHANGED <<req, files, files0, cache, phase, results, idx, kept, ret, report>>

\* os.makedirs in ensure_dir raises OSError; the call stands before the try
\* block, so the exception leaves the coroutine
EnsureDirFails(t) ==
    /\ phase \in {"gather", "await"}
    /\ pc[t] = "new"
    /\ ~(req.kind # "range" /\ TaskTime(req, t)[2] % 10 # 0)
    /\ Finish(t, Raised, "IOError")
    /\ calls' = [calls EXCEPT ![t].makedirs = Min(@ + 1, MaxCalls)]
    /\ UNCHANGED clsVars
    /\ UNCHANGED agg
    /\ UNCHANGED <<req, files, files0, cache, phase, results, idx, kept, ret, report>>

\* variant of HttpError that requests again after an error status other
\* than 404
HttpError_retry(t) ==
    /\ pc[t] = "req"
    /\ \E status \in {404, 500} :
          IF status = 404
          THEN Finish(t, None, "NotFound")
          ELSE /\ pc' = [pc EXCEPT ![t] = "new"]
               /\ UNCHANGED <<result, outcome, late, gathered, conn>>
    /\ UNCHANGED clsVars
    /\ UNCHANGED <<calls, agg>>
    /\ UNCHANGED <<req, files, files0, cache, phase, results, idx, kept, ret, report>>

\* response.raise_for_status() raises ClientResponseError: 404 or another
\* error status; both branches return None
HttpError(t) ==
    /\ pc[t] = "req"
    /\ \E status \in {404, 500} :
          Finish(t, None, IF status = 404 THEN "NotFound" ELSE "TransientError")
    /\ UNCHANGED clsVars
    /\ UNCHANGED <<calls, agg>>
    /\ UNCHANGED <<req, files, files0, cache, phase, results, idx, kept, ret, report>>

\* variant of RequestFails that requests again after a timeout
RequestFails_retry(t) ==
    /\ pc[t] = "req"
    /\ \E exc \in {"ClientConnectionError", "TimeoutError", "ClientError"} :
          IF exc = "TimeoutError"
          THEN /\ pc' = [pc EXCEPT ![t] = "new"]
               /\ UNCHANGED <<result, outcome, late, gathered, conn>>
          ELSE Finish(t, None, "TransientError")
    /\ UNCHANGED clsVars
    /\ UNCHANGED <<calls, agg>>
    /\ UNCHANGED <<req, files, files0, cache, phase, results, idx, kept, ret, report>>

\* session.get raises ClientConnectionError, asyncio.TimeoutError or another
\* ClientError before a response arrives
RequestFails(t) ==
    /\ pc[t] = "req"
    /\ \E exc \in {"ClientConnectionError", "TimeoutError", "ClientError"} :
          Finish(t, None, "TransientError")
    /\ UNCHANGED clsVars
    /\ UNCHANGED <<calls, agg>>
    /\ UNCHANGED <<req, files, files0, cache, phase, results, idx, kept, ret, report>>

\* status 200: aiofiles.open(local_file_path, 'wb') truncates the file
OpenFile(t) ==
    /\ pc[t] = "req"
    /\ \E b \in Bodies(KeyId(req, t)) :
          conn' = [conn EXCEPT ![t] = [body |-> b, sent |-> 0]]
    /\ files' = [files EXCEPT ![TaskPath(req, t)] = <<>>]
    /\ pc' = [pc EXCEPT ![t] = "body"]
    /\ UNCHANGED clsVars
    /\ UNCHANGED <<calls, agg>>
    /\ UNCHANGED <<req, files0, cache, phase, result, outcome, late, gathered,
                   results, idx, kept, ret, report>>

\* status 200, but aiofiles.open raises IOError: nothing is written
OpenFails(t) ==
    /\ pc[t] = "req"
    /\ Finish(t, None, "IOError")
    /\ UNCHANGED clsVars
    /\ UNCHANGED <<calls, agg>>
    /\ UNCHANGED <<req, files, files0, cache, phase, results, idx, kept, ret, report>>

\* response.content.read returns a chunk and f.write stores it
WriteChunk(t) ==
    /\ pc[t] = "body"
    /\ conn[t].sent < Len(conn[t].body)
    /\ files' = [files EXCEPT ![TaskPath(req, t)] =
                     Append(@, conn[t].body[conn[t].sent + 1])]
    /\ conn' = [conn EXCEPT ![t].sent = @ + 1]
    /\ UNCHANGED clsVars
    /\ UNCHANGED <<calls, agg>>
    /\ UNCHANGED <<req, files0, cache, phase, pc, result, outcome, late, gathered,
                   results, idx, kept, ret, report>>

\* f.write raises IOError for the chunk just read
WriteFails(t) ==
    /\ pc[t] = "body"
    /\ conn[t].sent < Len(conn[t].body)
    /\ Finish(t, None, "IOError")
    /\ UNCHANGED clsVars
    /\ UNCHANGED <<calls, agg>>
    /\ UNCHANGED <<req, files, files0, cache, phase, results, idx, kept, ret, report>>

\* response.content.read raises (timeout, connection reset, payload error)
\* before the body is complete
ReadFails(t) ==
    /\ pc[t] = "body"
    /\ conn[t].sent < Len(conn[t].body)
    /\ \E exc \in {"ClientConnectionError", "TimeoutError", "ClientError"} :
          Finish(t, None, "TransientError")
    /\ UNCHANGED clsVars
    /\ UNCHANGED <<calls, agg>>
    /\ UNCHANGED <<req, files, files0, cache, phase, results, idx, kept, ret, report>>

\* read returns the empty chunk: the loop ends, the path is returned
Complete(t) ==
    /\ pc[t] = "body"
    /\ conn[t].sent = Len(conn[t].body)
    /\ Finish(t, PathResult(TaskPath(req, t)), "Success")
    /\ UNCHANGED clsVars
    /\ UNCHANGED <<calls, agg>>
    /\ UNCHANGED <<req, files, files0, cache, phase, results, idx, kept, ret, report>>

(***************************************************************************)
(* The batch as a whole.                                                   *)
(***************************************************************************)
AllDone == \A t \in Tasks(req) : pc[t] = "done"

InFlight == { t \in Tasks(req) : pc[t] \in {"req", "body"} }

(***************************************************************************)
(* fetch_data_for_range.                                                   *)
(***************************************************************************)
\* lines 87-99: the tasks are created and handed to gather
StartRange ==
    /\ phase = "idle"
    /\ req.kind = "range"
    /\ phase' = "gather"
    /\ UNCHANGED clsVars
    /\ UNCHANGED <<calls, agg>>
    /\ UNCHANGED <<req, files, files0, cache, pc, conn, result, outcome,
                   late, gathered, results, idx, kept, ret, report>>

RECURSIVE RangeLoop_any_existing(_, _, _, _)
\* variant of RangeLoop that loads the file of the i-th day whenever one
\* exists at its path, whatever the fetch of the day returned
RangeLoop_any_existing(i, res, fs, acc) ==
    IF i > Len(res) THEN acc
    ELSE LET r == res[i]
             p == TaskPath(req, i)
         IN IF fs[p] # NoFile
            THEN LET df == load_data(acc.cache[p], fs[p])
                     shown == IF df.msg = "none" THEN acc.msgs ELSE Append(acc.msgs, df.msg)
                     c2 == [acc.cache EXCEPT ![p] = df]
                 IN RangeLoop_any_existing(i + 1, res, fs,
                        [dfs |-> IF df.tag = "df" /\ df.rows # <<>>
                                 THEN Append(acc.dfs, df.rows) ELSE acc.dfs,
                         msgs |-> shown,
                         cache |-> c2])
            ELSE IF r.tag = "exception"
                 THEN RangeLoop_any_existing(i + 1, res, fs,
                          [acc EXCEPT !.msgs = Append(@, "warning: Failed to fetch data")])
                 ELSE RangeLoop_any_existing(i + 1, res, fs, acc)

RECURSIVE RangeLoop(_, _, _, _)
\* lines 101-116, iterations i .. Len(res) of the loop over results, started
\* with the accumulated state acc = [dfs, msgs, cache]
RangeLoop(i, res, fs, acc) ==
    IF i > Len(res) THEN acc
    ELSE LET r == res[i]
         IN IF r.tag = "str" /\ fs[r.path] # NoFile
            THEN LET df == load_data(acc.cache[r.path], fs[r.path])
                     shown == IF df.msg = "none" THEN acc.msgs ELSE Append(acc.msgs, df.msg)
                     c2 == [acc.cache EXCEPT ![r.path] = df]
                 IN RangeLoop(i + 1, res, fs,
                        [dfs |-> IF df.tag = "df" /\ df.rows # <<>>
                                 THEN Append(acc.dfs, df.rows) ELSE acc.dfs,
                         msgs |-> shown,
                         cache |-> c2])
            ELSE IF r.tag = "exception"
                 THEN RangeLoop(i + 1, res, fs,
                          [acc EXCEPT !.msgs = Append(@, "warning: Failed to fetch data")])
                 ELSE RangeLoop(i + 1, res, fs, acc)

RECURSIVE concat(_)
\* pd.concat(all_dfs, ignore_index=True)
concat(dfs) == IF dfs = <<>> THEN <<>> ELSE Head(dfs) \o concat(Tail(dfs))

\* lines 122-128: the value returned and the final message
RangeReturn(acc) ==
    IF acc.dfs = <<>>
    THEN [ret |-> [tag |-> "None", rows |-> <<>>, paths |-> <<>>],
          msgs |-> Append(acc.msgs, "error: No data was loaded for the selected range.")]
    ELSE [ret |-> [tag |-> "df", rows |-> concat(acc.dfs), paths |-> <<>>],
          msgs |-> Append(acc.msgs, "success: Data combined")]

\* gather returns; the rest of fetch_data_for_range has no suspension point
RangeFinish ==
    /\ phase = "gather"
    /\ req.kind = "range"
    /\ AllDone \/ gathered.raised
    /\ LET g == gathered
       IN IF g.raised
          THEN /\ phase' = "raised"
               /\ UNCHANGED <<results, cache, ret, report>>
          ELSE LET acc == RangeLoop(1, g.results, files,
                                    [dfs |-> <<>>, msgs |-> <<>>, cache |-> cache])
                   out == RangeReturn(acc)
               IN /\ phase' = "returned"
                  /\ results' = g.results
                  /\ cache' = acc.cache
                  /\ ret' = out.ret
                  /\ report' = out.msgs
    /\ UNCHANGED clsVars
    /\ UNCHANGED <<calls, agg>>
    /\ UNCHANGED <<req, files, files0, pc, conn, result, outcome, late, gathered, idx, kept>>

(***************************************************************************)
(* fetch_all_10min_slots_for_day.                                          *)
(***************************************************************************)
\* lines 151-158: the slot tasks are created and handed to gather
StartSlots ==
    /\ phase = "idle"
    /\ req.kind = "slots"
    /\ phase' = "gather"
    /\ UNCHANGED clsVars
    /\ UNCHANGED <<calls, agg>>
    /\ UNCHANGED <<req, files, files0, cache, pc, conn, result, outcome,
                   late, gathered, results, idx, kept, ret, report>>

\* variant of SlotsGathered that goes on as soon as one slot fetch is done
SlotsGathered_first_done ==
    /\ phase = "gather"
    /\ req.kind = "slots"
    /\ (\E t \in Tasks(req) : pc[t] = "done") \/ gathered.raised
    /\ LET g == gathered
       IN IF g.raised
          THEN phase' = "raised" /\ UNCHANGED results
          ELSE phase' = "check" /\ results' = g.results
    /\ UNCHANGED clsVars
    /\ UNCHANGED <<calls, agg>>
    /\ UNCHANGED <<req, files, files0, cache, pc, conn, result, outcome,
                   late, gathered, idx, kept, ret, report>>

\* gather returns the list of results
SlotsGathered ==
    /\ phase = "gather"
    /\ req.kind = "slots"
    /\ AllDone \/ gathered.raised
    /\ LET g == gathered
       IN IF g.raised
          THEN phase' = "raised" /\ UNCHANGED results
          ELSE phase' = "check" /\ results' = g.results
    /\ UNCHANGED clsVars
    /\ UNCHANGED <<calls, agg>>
    /\ UNCHANGED <<req, files, files0, cache, pc, conn, result, outcome,
                   late, gathered, idx, kept, ret, report>>

\* variant of KeepsFile that stops at the size check
KeepsFile_size_only(r, fs) ==
    /\ r.tag = "str"
    /\ fs[r.path] # NoFile
    /\ Len(fs[r.path]) > 0

\* lines 162-182 for one result: whether its path is appended to
\* downloaded_files_with_data; an exception of read_csv skips the slot
KeepsFile(r, fs) ==
    /\ r.tag = "str"
    /\ fs[r.path] # NoFile
    /\ Len(fs[r.path]) > 0
    /\ LET df_temp == read_csv(fs[r.path], 1)
       IN df_temp.tag = "df" /\ df_temp.rows # <<>>

\* one iteration of the loop over results
SlotCheck ==
    /\ phase = "check"
    /\ idx <= Len(results)
    /\ kept' = IF KeepsFile(results[idx], files)
               THEN Append(kept, results[idx].path) ELSE kept
    /\ idx' = idx + 1
    /\ UNCHANGED clsVars
    /\ UNCHANGED <<calls, agg>>
    /\ UNCHANGED <<req, files, files0, cache, phase, pc, conn, result,
                   outcome, late, gathered, results, ret, report>>

\* line 189: return downloaded_files_with_data
SlotsReturn ==
    /\ phase = "check"
    /\ idx > Len(results)
    /\ phase' = "returned"
    /\ ret' = [tag |-> "paths", rows |-> <<>>, paths |-> kept]
    /\ UNCHANGED clsVars
    /\ UNCHANGED <<calls, agg>>
    /\ UNCHANGED <<req, files, files0, cache, pc, conn, result, outcome,
                   late, gathered, results, idx, kept, report>>

(***************************************************************************)
(* load_and_combine_10min_data_for_days.                                   *)
(***************************************************************************)
RECURSIVE SlotLoop(_, _, _, _)
\* lines 147-151, iterations i .. Len(paths) of the loop over list_of_files,
\* started with the accumulated state acc = [dfs, msgs, cache]
SlotLoop(i, paths, fs, acc) ==
    IF i > Len(paths) THEN acc
    ELSE LET df == load_data(acc.cache[paths[i]], fs[paths[i]])
             shown == IF df.msg = "none" THEN acc.msgs ELSE Append(acc.msgs, df.msg)
         IN SlotLoop(i + 1, paths, fs,
                [dfs |-> IF df.tag = "df" /\ df.rows # <<>>
                         THEN Append(acc.dfs, df.rows) ELSE acc.dfs,
                 msgs |-> shown,
                 cache |-> [acc.cache EXCEPT ![paths[i]] = df]])

\* order of two cells of the column event_datetime: Timestamps by time,
\* texts as strings (a text that is a date is written year first and
\* stands below a text that begins with a letter)
CellLeq(a, b) ==
    IF a.event_datetime = BadTime THEN b.event_datetime = BadTime
    ELSE b.event_datetime = BadTime \/ a.event_datetime <= b.event_datetime

RECURSIVE InsertDesc(_, _)
\* r put into the descending sequence sorted, behind the cells not below it
InsertDesc(sorted, r) ==
    IF sorted = <<>> THEN <<r>>
    ELSE IF CellLeq(r, Head(sorted))
         THEN <<Head(sorted)>> \o InsertDesc(Tail(sorted), r)
         ELSE <<r>> \o sorted

RECURSIVE SortDesc(_)
SortDesc(rows) ==
    IF rows = <<>> THEN <<>>
    ELSE InsertDesc(SortDesc(SubSeq(rows, 1, Len(rows) - 1)), rows[Len(rows)])

\* line 166, combined_df.sort_values(by='event_datetime', ascending=False):
\* a column that holds Timestamps and texts cannot be ordered, the
\* comparison of a Timestamp with a str raises TypeError
sort_values(rows) ==
    IF /\ \E i \in 1 .. Len(rows) : rows[i].type = "Timestamp"
       /\ \E i \in 1 .. Len(rows) : rows[i].type = "str"
    THEN [raises |-> TRUE, rows |-> <<>>]
    ELSE [raises |-> FALSE, rows |-> SortDesc(rows)]

\* lines 161-171: the value returned and the final message
CombineReturn(dfs, msgs) ==
    IF dfs = <<>>
    THEN [raises |-> FALSE,
          ret |-> [tag |-> "None", rows |-> <<>>, paths |-> <<>>],
          msgs |-> Append(msgs, "info: No 10-minute data found for the selected days.")]
    ELSE LET sorted == sort_values(concat(dfs))
         IN IF sorted.raises
            THEN [raises |-> TRUE, ret |-> NoRet, msgs |-> msgs]
            ELSE [raises |-> FALSE,
                  ret |-> [tag |-> "df", rows |-> sorted.rows, paths |-> <<>>],
                  msgs |-> Append(msgs, "success: 10-minute fire spots loaded")]

\* fetch_all_10min_slots_for_day has returned list_of_files for the day
\* (line 144): its files are loaded (146-151); then the loop goes to the
\* next day of days_list and calls fetch_all_10min_slots_for_day for it,
\* whose keys no earlier day has downloaded or loaded, or, after the last
\* day, the frames are combined, sorted and returned (161-171)
AggDayDone ==
    /\ agg.day >= 1
    /\ req.kind = "slots"
    /\ phase = "returned"
    /\ LET acc == SlotLoop(1, ret.paths, files,
                           [dfs |-> agg.dfs, msgs |-> report, cache |-> cache])
           nxt == [req EXCEPT !.start = @ + 1]
           out == CombineReturn(acc.dfs, acc.msgs)
       IN IF agg.day < agg.days
          THEN /\ req' = nxt
               /\ agg' = [agg EXCEPT !.day = @ + 1, !.dfs = acc.dfs]
               /\ report' = acc.msgs
               /\ files' = [p \in Paths(nxt) |-> NoFile]
               /\ files0' = [p \in Paths(nxt) |-> NoFile]
               /\ cache' = [p \in Paths(nxt) |-> NoEntry]
               /\ phase' = "idle"
               /\ pc' = [t \in Tasks(nxt) |-> "new"]
               /\ conn' = [t \in Tasks(nxt) |-> NoConn]
               /\ result' = [t \in Tasks(nxt) |-> Pending]
               /\ outcome' = [t \in Tasks(nxt) |-> "pending"]
               /\ calls' = [t \in Tasks(nxt) |-> NoCalls]
               /\ late' = FALSE
               /\ gathered' = [raised |-> FALSE,
                               results |-> [t \in Tasks(nxt) |-> Pending]]
               /\ results' = <<>>
               /\ idx' = 1
               /\ kept' = <<>>
               /\ ret' = NoRet
          ELSE /\ agg' = [agg EXCEPT !.dfs = acc.dfs]
               /\ cache' = acc.cache
               /\ report' = out.msgs
               /\ ret' = out.ret
               /\ phase' = IF out.raises THEN "raised" ELSE "combined"
               /\ UNCHANGED <<req, files, files0, pc, conn, result, outcome, calls,
                              late, gathered, results, idx, kept>>
    /\ UNCHANGED clsVars

Next ==
    \/ StartRange
    \/ StartSlots
    \/ \E t \in Tasks(req) : FetchStart(t)
    \/ \E t \in Tasks(req) : EnsureDirFails(t)
    \/ \E t \in Tasks(req) : HttpError(t)
    \/ \E t \in Tasks(req) : RequestFails(t)
    \/ \E t \in Tasks(req) : OpenFile(t)
    \/ \E t \in Tasks(req) : OpenFails(t)
    \/ \E t \in Tasks(req) : WriteChunk(t)
    \/ \E t \in Tasks(req) : WriteFails(t)
    \/ \E t \in Tasks(req) : ReadFails(t)
    \/ \E t \in Tasks(req) : Complete(t)
    \/ RangeFinish
    \/ SlotsGathered
    \/ SlotCheck
    \/ SlotsReturn

Spec == Init /\ [][Next]_vars

\* the steps of the coroutine of task t
TaskStep(t) ==
    \/ FetchStart(t)
    \/ EnsureDirFails(t)
    \/ HttpError(t)
    \/ RequestFails(t)
    \/ OpenFile(t)
    \/ OpenFails(t)
    \/ WriteChunk(t)
    \/ WriteFails(t)
    \/ ReadFails(t)
    \/ Complete(t)

\* The event loop runs whatever is ready: a request gets its response or
\* its timeout of 60 seconds (session.get(url, timeout=60)), a read or a
\* write returns or raises, and the code after gather runs to its end.
\* a batch whose keys no earlier batch has downloaded or loaded: what the
\* raw-data directory and the cache hold decides no step a task can take
FreshInit ==
    /\ Init
    /\ \A p \in Paths(req) : files[p] = NoFile /\ cache[p] = NoEntry

LiveSpec == FreshInit /\ [][Next]_vars /\ WF_vars(Next)

(***************************************************************************)
(* fetch_10min_fire_csv called by itself, for any target_datetime.         *)
(***************************************************************************)
\* the caller awaits the one coroutine; the path may hold the file of an
\* earlier download
DirectInit ==
    /\ req \in DirectRequests
    /\ files \in { [p \in Paths(req) |-> f] : f \in {NoFile, OldFile(KeyId(req, 1))} }
    /\ files0 = files
    /\ cache = [p \in Paths(req) |-> NoEntry]
    /\ phase = "await"
    /\ pc = [t \in Tasks(req) |-> "new"]
    /\ conn = [t \in Tasks(req) |-> NoConn]
    /\ result = [t \in Tasks(req) |-> Pending]
    /\ outcome = [t \in Tasks(req) |-> "pending"]
    /\ late = FALSE
    /\ gathered = [raised |-> FALSE, results |-> [t \in Tasks(req) |-> Pending]]
    /\ results = <<>>
    /\ idx = 1
    /\ kept = <<>>
    /\ ret = NoRet
    /\ report = <<>>
    /\ calls = [t \in Tasks(req) |-> NoCalls]
    /\ agg = NoAgg
    /\ ClassifierOff

DirectNext ==
    \/ \E t \in Tasks(req) : FetchStart(t)
    \/ \E t \in Tasks(req) : EnsureDirFails(t)
    \/ \E t \in Tasks(req) : HttpError(t)
    \/ \E t \in Tasks(req) : RequestFails(t)
    \/ \E t \in Tasks(req) : OpenFile(t)
    \/ \E t \in Tasks(req) : OpenFails(t)
    \/ \E t \in Tasks(req) : WriteChunk(t)
    \/ \E t \in Tasks(req) : WriteFails(t)
    \/ \E t \in Tasks(req) : ReadFails(t)
    \/ \E t \in Tasks(req) : Complete(t)

DirectSpec == DirectInit /\ [][DirectNext]_vars

(***************************************************************************)
(* The 10-minute aggregation over the days of days_list, from its call.    *)
(***************************************************************************)
\* days_list holds d consecutive days, of each of which the first k slots
\* are enumerated
AggShapes ==
    { dk \in (1 .. MaxDays) \X (1 .. NumSlots) : dk[1] * dk[2] <= MaxFetches }

AggInit ==
    /\ \E dk \in AggShapes :
          /\ req = [kind |-> "slots", start |-> 0, n |-> dk[2]]
          /\ agg = [days |-> dk[1], day |-> 1, dfs |-> <<>>]
    /\ files = [p \in Paths(req) |-> NoFile]
    /\ files0 = files
    /\ cache = [p \in Paths(req) |-> NoEntry]
    /\ phase = "idle"
    /\ pc = [t \in Tasks(req) |-> "new"]
    /\ conn = [t \in Tasks(req) |-> NoConn]
    /\ result = [t \in Tasks(req) |-> Pending]
    /\ outcome = [t \in Tasks(req) |-> "pending"]
    /\ late = FALSE
    /\ gathered = [raised |-> FALSE, results |-> [t \in Tasks(req) |-> Pending]]
    /\ results = <<>>
    /\ idx = 1
    /\ kept = <<>>
    /\ ret = NoRet
    /\ report = <<>>
    /\ calls = [t \in Tasks(req) |-> NoCalls]
    /\ ClassifierOff

AggNext ==
    \/ StartSlots
    \/ \E t \in Tasks(req) : FetchStart(t)
    \/ \E t \in Tasks(req) : EnsureDirFails(t)
    \/ \E t \in Tasks(req) : HttpError(t)
    \/ \E t \in Tasks(req) : RequestFails(t)
    \/ \E t \in Tasks(req) : OpenFile(t)
    \/ \E t \in Tasks(req) : OpenFails(t)
    \/ \E t \in Tasks(req) : WriteChunk(t)
    \/ \E t \in Tasks(req) : WriteFails(t)
    \/ \E t \in Tasks(req) : ReadFails(t)
    \/ \E t \in Tasks(req) : Complete(t)
    \/ SlotsGathered
    \/ SlotCheck
    \/ SlotsReturn
    \/ AggDayDone

AggSpec == AggInit /\ [][AggNext]_vars

(***************************************************************************)
(* The two aggregations from the moment all fetches of the batch are done, *)
(* for every content the downloaded files can have.                        *)
(***************************************************************************)
\* what the archive delivered for key k: nothing (404), a header alone,
\* two rows, two rows of which the second has a timestamp that is no date
LoadedFiles(k) ==
    { NoFile, <<Header>>, <<Header, Row(k, 1), Row(k, 2)>>,
      <<Header, Row(k, 1), BadRow(k, 2)>> }

SortInit ==
    /\ req \in Requests
    /\ files \in { f \in [Paths(req) -> UNION { LoadedFiles(KeyId(req, t)) : t \in Tasks(req) }] :
                      \A t \in Tasks(req) : f[TaskPath(req, t)] \in LoadedFiles(KeyId(req, t)) }
    /\ files0 = [p \in Paths(req) |-> NoFile]
    /\ cache = [p \in Paths(req) |-> NoEntry]
    /\ phase = "gather"
    /\ pc = [t \in Tasks(req) |-> "done"]
    /\ conn = [t \in Tasks(req) |-> NoConn]
    /\ result = [t \in Tasks(req) |->
                    IF files[TaskPath(req, t)] = NoFile THEN None
                    ELSE PathResult(TaskPath(req, t))]
    /\ outcome = [t \in Tasks(req) |->
                     IF files[TaskPath(req, t)] = NoFile THEN "NotFound" ELSE "Success"]
    /\ late = FALSE
    /\ gathered = [raised |-> FALSE, results |-> result]
    /\ results = <<>>
    /\ idx = 1
    /\ kept = <<>>
    /\ ret = NoRet
    /\ report = <<>>
    /\ calls = [t \in Tasks(req) |-> [makedirs |-> 1, get |-> 1]]
    /\ agg = IF req.kind = "slots" THEN [days |-> 1, day |-> 1, dfs |-> <<>>] ELSE NoAgg
    /\ ClassifierOff

SortNext ==
    \/ RangeFinish
    \/ SlotsGathered
    \/ SlotCheck
    \/ SlotsReturn
    \/ AggDayDone

SortSpec == SortInit /\ [][SortNext]_vars

(***************************************************************************)
(* The classifier as a process: the module is imported (line 64 calls      *)
(* load_biomes_data), load_biomes_data may be called again, and            *)
(* aplica_avaliacao_risco_df classifies rows.  Its two passes over the     *)
(* frame (line 179, lines 185-191) read the index and write only columns   *)
(* of the row they are at, so the model takes them row by row.             *)
(***************************************************************************)
\* the pipeline at rest
PipelineOff ==
    /\ req = [kind |-> "slots", start |-> 0, n |-> NumSlots]
    /\ files = [p \in Paths(req) |-> NoFile]
    /\ files0 = files
    /\ cache = [p \in Paths(req) |-> NoEntry]
    /\ phase = "idle"
    /\ pc = [t \in Tasks(req) |-> "new"]
    /\ conn = [t \in Tasks(req) |-> NoConn]
    /\ result = [t \in Tasks(req) |-> Pending]
    /\ outcome = [t \in Tasks(req) |-> "pending"]
    /\ late = FALSE
    /\ gathered = [raised |-> FALSE, results |-> [t \in Tasks(req) |-> Pending]]
    /\ results = <<>>
    /\ idx = 1
    /\ kept = <<>>
    /\ ret = NoRet
    /\ report = <<>>
    /\ calls = [t \in Tasks(req) |-> NoCalls]
    /\ agg = NoAgg

HasNullGeometry(ds) == \E i \in 1 .. Len(ds.rows) : ds.rows[i].geometry.null

\* line 23: BIOMES_GDF = None; the file system holds any of the datasets
ClassifyInit ==
    /\ PipelineOff
    /\ dataset \in Datasets
    /\ shapely \in (IF HasNullGeometry(dataset) THEN {"1.x", "2.x"} ELSE {"2.x"})
    /\ BIOMES_GDF = NoneGdf
    /\ reads = 0
    /\ loadStatus = "none"
    /\ stage = "idle"
    /\ foco = NoRow
    /\ avaliacao = NoAvaliacao
    /\ lookups = 0
    /\ geo = NoneBiome

\* whether point.within(None) raises in the installed shapely
withinNullRaises == shapely = "1.x"

\* a call of load_biomes_data: the one of the import, or a later one
LoadBiomes ==
    /\ reads < MaxReads
    /\ LET r == load_biomes_data(BIOMES_GDF, dataset)
       IN /\ BIOMES_GDF' = r.gdf
          /\ reads' = reads + r.read
          /\ loadStatus' = r.status
    /\ UNCHANGED <<dataset, shapely, stage, foco, avaliacao, lookups, geo>>
    /\ UNCHANGED fetchVars

\* line 179 for one row: df.apply(assess_foco_criticidade, axis=1)
AssessRow ==
    /\ loadStatus # "none"
    /\ stage = "idle"
    /\ \E row \in Rows :
          LET a == assess_foco_criticidade(row, BIOMES_GDF, withinNullRaises)
          IN /\ foco' = row
             /\ avaliacao' = a
             /\ lookups' = a.lookups
    /\ geo' = NoneBiome
    /\ stage' = "assessed"
    /\ UNCHANGED <<dataset, shapely, BIOMES_GDF, reads, loadStatus>>
    /\ UNCHANGED fetchVars

\* lines 185-191 for the same row: the column determined_biome_geo
GeoColumnRow ==
    /\ stage = "assessed"
    /\ IF BIOMES_GDF # NoneGdf /\ ~empty(BIOMES_GDF)
       THEN IF notna(foco.lat) /\ notna(foco.lon)
            THEN /\ geo' = get_biome_from_lat_lon(BIOMES_GDF, foco.lat, foco.lon,
                                                  withinNullRaises).biome
                 /\ lookups' = lookups + 1
            ELSE /\ geo' = NoneBiome
                 /\ UNCHANGED lookups
       ELSE UNCHANGED <<geo, lookups>>
    /\ stage' = "enriched"
    /\ UNCHANGED <<dataset, shapely, BIOMES_GDF, reads, loadStatus, foco, avaliacao>>
    /\ UNCHANGED fetchVars

\* line 192: the enriched frame is returned; the next call starts afresh
ReturnFrame ==
    /\ stage = "enriched"
    /\ stage' = "idle"
    /\ foco' = NoRow
    /\ avaliacao' = NoAvaliacao
    /\ lookups' = 0
    /\ geo' = NoneBiome
    /\ UNCHANGED <<dataset, shapely, BIOMES_GDF, reads, loadStatus>>
    /\ UNCHANGED fetchVars

ClassifyNext ==
    \/ LoadBiomes
    \/ AssessRow
    \/ GeoColumnRow
    \/ ReturnFrame

ClassifySpec == ClassifyInit /\ [][ClassifyNext]_vars

(***************************************************************************)
(* Properties.                                                             *)
(***************************************************************************)
Done(t) == pc[t] = "done"

\* a loader (pandas.read_csv) accepts the content as a table
LoaderValid(content) == read_csv(content, -1).tag = "df"

\* the content holds a header and at least one data row
HasRows(content) ==
    /\ content # NoFile
    /\ Len(content) >= 2
    /\ content[1].kind = "header"
    /\ \A i \in 2 .. Len(content) : content[i].kind = "row"

IsRange == req.kind = "range"
IsSlots == req.kind = "slots"

\* C1: after a fetch has returned, the file at its local path is the fully
\* transferred resource when the fetch succeeded; when it failed, the path
\* holds what it held before the fetch (a complete earlier file is not
\* replaced by a truncated one) or, if it held nothing, no content that a
\* loader would accept (no partial file).
C1_FetchAllOrNothing ==
    \A t \in Tasks(req) :
        Done(t) =>
            LET p == TaskPath(req, t)
            IN IF outcome[t] = "Success"
               THEN files[p] \in Bodies(KeyId(req, t))
               ELSE \/ files[p] = files0[p]
                    \/ files0[p] = NoFile /\ ~LoaderValid(files[p])

\* C2: a range batch in which every day either succeeded with rows or was
\* NotFound, at least one of each, returns a Dataset holding
\* exactly the rows of the files of the days that succeeded, in day order,
\* and ends with the success message, not with the error message.
RECURSIVE FetchedRows(_)
FetchedRows(t) ==
    IF t > req.n THEN <<>>
    ELSE (IF outcome[t] = "Success"
          THEN ParseRows(Tail(files[TaskPath(req, t)])) ELSE <<>>)
         \o FetchedRows(t + 1)

PartialSuccessCase ==
    /\ IsRange
    /\ phase = "returned"
    /\ \A t \in Tasks(req) :
          \/ outcome[t] = "NotFound"
          \/ outcome[t] = "Success" /\ HasRows(files[TaskPath(req, t)])
    /\ \E t \in Tasks(req) : outcome[t] = "Success"
    /\ \E t \in Tasks(req) : outcome[t] = "NotFound"

C2_PartialSuccess ==
    PartialSuccessCase =>
        /\ ret.tag = "df"
        /\ ret.rows = FetchedRows(1)
        /\ report[Len(report)] = "success: Data combined"

\* a completed fetch of task t is recorded as its own result
OwnResult(t) ==
    /\ Done(t)
    /\ results[t] = result[t]
    /\ (results[t].tag = "str") <=> (outcome[t] = "Success")
    /\ results[t].tag = "str" => results[t].path = TaskPath(req, t)

\* C3: in a slot batch no failure of a slot, an exception raised inside the
\* fetch task included, aborts the batch: the batch never raises, and once
\* gather has returned every slot's fetch has run to completion and the
\* result recorded for a slot is that slot's own result.
C3_SlotIsolation ==
    IsSlots =>
        /\ phase # "raised"
        /\ phase \in {"check", "returned"} =>
               /\ Len(results) = req.n
               /\ \A t \in Tasks(req) : OwnResult(t)

\* a slot batch has returned although one slot's task raised, and another
\* slot of it succeeded and is in the result
C3_Witness ==
    /\ IsSlots
    /\ phase = "returned"
    /\ \E t1, t2 \in Tasks(req) :
          /\ result[t1] = Raised
          /\ outcome[t2] = "Success"
          /\ \E i \in 1 .. Len(ret.paths) : ret.paths[i] = TaskPath(req, t2)

\* rows the table of day t contributed: the frame load_data returned for it
DayTable(t) ==
    LET p == TaskPath(req, t)
    IN IF result[t].tag = "str" /\ cache[p].tag = "df" THEN cache[p].rows ELSE <<>>

RECURSIVE DayTables(_)
DayTables(t) == IF t > req.n THEN <<>> ELSE DayTable(t) \o DayTables(t + 1)

\* C4: whatever the order in which the day fetches completed, the Dataset a
\* range batch returns is the concatenation of the parsed per-day tables in
\* ascending date order: gather lists the results by day, and the rows of
\* an earlier day stand before the rows of a later day.
C4_DateOrder ==
    (IsRange /\ phase = "returned") =>
        /\ \A t \in Tasks(req) : results[t] = result[t]
        /\ ret.tag = "df" =>
               /\ ret.rows = DayTables(1)
               /\ \A i, j \in 1 .. Len(ret.rows) :
                      i < j => ret.rows[i].n < ret.rows[j].n

\* a range batch in which a later day completed before an earlier day
\* returned rows of both days
C4_Witness ==
    /\ IsRange
    /\ phase = "returned"
    /\ late
    /\ ret.tag = "df"
    /\ \E i, j \in 1 .. Len(ret.rows) : ret.rows[i].n \div 10 # ret.rows[j].n \div 10

ErrorMessages ==
    { "error: No data was loaded for the selected range.",
      "error: CSV file not found",
      "error: Error loading CSV" }

\* C5: when no day of the range was fetched successfully (each was NotFound
\* or failed), the range batch returns an empty Dataset, not an error
\* value, and shows no error message.
C5_EmptyDatasetNoError ==
    (IsRange /\ phase = "returned" /\ \A t \in Tasks(req) : outcome[t] # "Success") =>
        /\ ret.tag = "df"
        /\ ret.rows = <<>>
        /\ \A i \in 1 .. Len(report) : report[i] \notin ErrorMessages

\* value and messages of a range batch of req.n days that were all NotFound
AllAbsentResult ==
    LET out == RangeReturn(RangeLoop(1, [i \in 1 .. req.n |-> None], files0,
                                     [dfs |-> <<>>, msgs |-> <<>>, cache |-> cache]))
    IN <<out.ret, out.msgs>>

\* C6: a range batch in which every day's fetch failed (transport or local
\* storage failure) ends with a returned value or a report that differs
\* from those of the batch in which every day was absent.
C6_NoDataVsFailed ==
    (/\ IsRange
     /\ phase = "returned"
     /\ \A t \in Tasks(req) : outcome[t] \in {"TransientError", "IOError"}) =>
        <<ret, report>> # AllAbsentResult

\* C7: the slot fetches in flight at one time stay below a cap that is
\* smaller than the number of slots of the batch.
C7_ConcurrencyCap ==
    IsSlots => Cardinality(InFlight) < req.n

\* C8: every path fetch_all_10min_slots_for_day keeps or returns is the
\* path of a slot whose fetch succeeded in this batch and whose file is
\* non-empty and has a data row after the header.
C8_KeptHaveData ==
    IsSlots =>
        /\ \A i \in 1 .. Len(kept) :
              \E t \in Tasks(req) :
                  /\ kept[i] = TaskPath(req, t)
                  /\ outcome[t] = "Success"
                  /\ Len(files[kept[i]]) > 0
                  /\ HasRows(files[kept[i]])
        /\ phase = "returned" => ret.tag = "paths" /\ ret.paths = kept

\* a slot batch returned one slot with data and left out another slot
\* whose fetch succeeded with a header-only file
C8_Witness ==
    /\ IsSlots
    /\ phase = "returned"
    /\ Len(ret.paths) >= 1
    /\ \E t \in Tasks(req) :
          /\ outcome[t] = "Success"
          /\ files[TaskPath(req, t)] = <<Header>>
          /\ \A i \in 1 .. Len(ret.paths) : ret.paths[i] # TaskPath(req, t)

\* C9: a fetch never raises into its caller, and fetches that ended in
\* different outcome classes return values the caller can tell apart.
C9_ClassifiedOutcome ==
    /\ \A t \in Tasks(req) : Done(t) => result[t] # Raised
    /\ \A t1, t2 \in Tasks(req) :
          (Done(t1) /\ Done(t2) /\ outcome[t1] # outcome[t2]) => result[t1] # result[t2]

\* every slot of every day of the window, as the full nested loop lists them
AllSlotNames ==
    { TenMinFileName(AddDays(BaseDate, d), SlotOf(k)[1], SlotOf(k)[2]) :
          d \in 0 .. MaxDays - 1, k \in 1 .. HoursPerDay * SlotsPerHour }

AllDailyNames == { DailyFileName(AddDays(BaseDate, d)) : d \in 0 .. MaxDays - 1 }

\* C10: no two tasks of a batch that are writing at the same time write to
\* the same local file; the tasks of a batch have pairwise distinct keys
\* and pairwise distinct local paths, and the names of all slots of all
\* days, and of all days, are pairwise distinct.
C10_DistinctPaths ==
    /\ \A t1, t2 \in Tasks(req) :
          (t1 # t2 /\ pc[t1] = "body" /\ pc[t2] = "body") =>
              TaskPath(req, t1) # TaskPath(req, t2)
    /\ phase = "idle" =>
          /\ \A t1, t2 \in Tasks(req) :
                t1 # t2 =>
                    /\ TaskPath(req, t1) # TaskPath(req, t2)
                    /\ IsRange => TaskDate(req, t1) # TaskDate(req, t2)
                    /\ IsSlots => SlotOf(t1) # SlotOf(t2)
          /\ Cardinality(AllSlotNames) = MaxDays * HoursPerDay * SlotsPerHour
          /\ Cardinality(AllDailyNames) = MaxDays
          /\ AllSlotNames \cap AllDailyNames = {}

\* two fetch tasks of a slot batch are writing their files at the same time
C10_Witness ==
    /\ IsSlots
    /\ \E t1, t2 \in Tasks(req) :
          /\ t1 # t2
          /\ pc[t1] = "body" /\ conn[t1].sent >= 1
          /\ pc[t2] = "body" /\ conn[t2].sent >= 1

(***************************************************************************)
(* C11: every batch terminates: fetch_data_for_range and                   *)
(* fetch_all_10min_slots_for_day eventually return; when they do, gather   *)
(* holds an outcome for every unit of the batch; and while the batch is    *)
(* being gathered a unit that has not finished can always take its next    *)
(* step, whatever the other units are waiting for, so that a fetch stalled *)
(* until its deadline holds up nothing but its own outcome.                *)
(***************************************************************************)
BatchReturned == phase = "returned"

OutcomesRecorded ==
    \A t \in Tasks(req) :
        /\ Done(t)
        /\ outcome[t] # "pending"
        /\ results[t] # Pending
        /\ results[t] = result[t]

NotHeldUp ==
    \A t \in Tasks(req) : phase = "gather" /\ ~Done(t) => ENABLED TaskStep(t)

C11_BatchTerminates ==
    /\ <>BatchReturned
    /\ [](BatchReturned => OutcomesRecorded)
    /\ []NotHeldUp

\* a batch has returned in which a fetch that ended with a timeout or a
\* connection error was overtaken by a fetch listed after it
C11_Witness ==
    /\ BatchReturned
    /\ late
    /\ \E t, u \in Tasks(req) :
          t < u /\ outcome[t] = "TransientError" /\ outcome[u] = "Success"

(***************************************************************************)
(* Claims about the Biome Index and the classifier, under ClassifySpec.    *)
(***************************************************************************)
Initialised == loadStatus # "none"
Assessed == stage \in {"assessed", "enriched"}

\* lookup of the coordinates c in the index as it is now
Lookup(c) == get_biome_from_lat_lon(BIOMES_GDF, c.lat, c.lon, withinNullRaises)

\* C12: over any sequence of load calls the polygon dataset is read at most
\* once; once the index is initialised, loaded or degraded to empty, no
\* step (a further load call, a lookup, a classification) reads the
\* dataset or changes the index.
C12_LoadedOnce ==
    /\ [](reads <= 1)
    /\ [][BIOMES_GDF # NoneGdf =>
             BIOMES_GDF' = BIOMES_GDF /\ reads' = reads]_vars

\* load_biomes_data was called again after a load that read an unreadable
\* dataset and left the index empty
C12_Witness ==
    /\ dataset.kind = "malformed"
    /\ loadStatus = "cached"
    /\ reads = 1
    /\ empty(BIOMES_GDF)

\* the dataset is missing, malformed or lacks the name attribute
Degraded(ds) == ds.kind # "readable" \/ BIOME_NAME_COLUMN \notin ds.columns

\* the tier of the FRP criterion alone
FrpTier(frp) ==
    IF frp.kind = "num" /\ frp.v >= RISK_FRP_THRESHOLD THEN 2
    ELSE IF frp.kind = "num" /\ 2 * frp.v >= RISK_FRP_THRESHOLD THEN 1
    ELSE 0

\* C13: with a dataset that is missing, malformed or without the name
\* attribute the load does not abort and leaves an empty index; every
\* lookup then returns None, and every classification completes, a row
\* without explicit biome getting the tier of the FRP criterion alone.
C13_DegradedIndex ==
    /\ loadStatus # "raised"
    /\ Initialised /\ Degraded(dataset) =>
          /\ empty(BIOMES_GDF)
          /\ \A c \in Coords : Lookup(c).biome = NoneBiome
          /\ Assessed =>
                /\ avaliacao.criticidade \in {"Baixo", "Medio", "Alto", "Critico"}
                /\ Len(avaliacao.razoes) >= 1
                /\ ~notna(foco.bioma) =>
                      /\ avaliacao.determined_biome = NoneBiome
                      /\ avaliacao.nivel = FrpTier(foco.frp)

\* a row without explicit biome, at a point the polygons of the file
\* contain, was classified High after the file turned out to lack the
\* name attribute
C13_Witness ==
    /\ dataset.kind = "readable"
    /\ BIOME_NAME_COLUMN \notin dataset.columns
    /\ stage = "assessed"
    /\ ~notna(foco.bioma)
    /\ notna(foco.lat) /\ notna(foco.lon)
    /\ Point(foco.lon, foco.lat) = PA
    /\ avaliacao.criticidade = "Alto"

\* rows of the index whose polygon the point is within
Containing(point) ==
    { i \in 1 .. Len(BIOMES_GDF.rows) :
        /\ ~BIOMES_GDF.rows[i].geometry.null
        /\ point \in BIOMES_GDF.rows[i].geometry.pts }

\* C14: for a loaded index, lookup of a point returns the name of the first
\* polygon in load order that contains it, None when no polygon contains
\* it, and None without testing a polygon when lat or lon is null.
C14_FirstMatchWins ==
    Initialised /\ ~empty(BIOMES_GDF) =>
        \A c \in Coords :
            IF notna(c.lat) /\ notna(c.lon)
            THEN LET hits == Containing(Point(c.lon, c.lat))
                 IN IF hits = {}
                    THEN Lookup(c).biome = NoneBiome
                    ELSE \E i \in hits :
                            /\ \A j \in hits : i <= j
                            /\ Lookup(c).biome = BIOMES_GDF.rows[i].nom_bioma
            ELSE Lookup(c).biome = NoneBiome /\ Lookup(c).tests = 0

\* C15: a row with an explicit, non-null biome is classified with that
\* biome and get_biome_from_lat_lon is never called for it; lookups are
\* made only for rows without explicit biome.
C15_ExplicitBiomeNoLookup ==
    Assessed /\ notna(foco.bioma) =>
        /\ avaliacao.determined_biome = foco.bioma.s
        /\ lookups = 0

\* the biome the classification of row goes by: the explicit one, or the
\* one the index finds for the coordinates
EffectiveBiome(row) ==
    IF notna(row.bioma) THEN row.bioma.s
    ELSE IF notna(row.lat) /\ notna(row.lon)
         THEN Lookup([lat |-> row.lat, lon |-> row.lon]).biome
         ELSE NoneBiome

\* a reason is recorded for row before the closing lines 148-151: the
\* geolocation reason, the FRP reason or the sensitive-biome reason
ReasonRecorded(row) ==
    \/ ~notna(row.bioma) /\ Truthy(EffectiveBiome(row))
    \/ FrpTier(row.frp) = 2
    \/ EffectiveBiome(row) \in SENSITIVE_BIOMES

Has(razoes, r) == \E i \in 1 .. Len(razoes) : razoes[i] = r

\* C16: whatever the row and the index, the reasons returned are at least
\* one; they are exactly the 'no criterion met' reason when the tier is
\* Low and nothing else was recorded, and they hold the generic
\* placeholder exactly when the tier is above Low and nothing else was
\* recorded.
C16_ReasonsNonEmpty ==
    Assessed =>
        /\ Len(avaliacao.razoes) >= 1
        /\ avaliacao.criticidade = "Baixo" /\ ~ReasonRecorded(foco) =>
              avaliacao.razoes = <<NoCriterion>>
        /\ Has(avaliacao.razoes, Placeholder) <=>
              avaliacao.criticidade # "Baixo" /\ ~ReasonRecorded(foco)
        /\ Has(avaliacao.razoes, NoCriterion) =>
              avaliacao.criticidade = "Baixo"

\* a row of medium FRP and no biome was classified Medium with the
\* placeholder as its only reason
C16_Witness ==
    /\ stage = "assessed"
    /\ FrpTier(foco.frp) = 1
    /\ EffectiveBiome(foco) = NoneBiome
    /\ avaliacao.criticidade = "Medio"
    /\ avaliacao.razoes = <<Placeholder>>

\* the order Low < Medium < High < Critical of the labels
TierOf(label) ==
    IF label = "Critico" THEN 3
    ELSE IF label = "Alto" THEN 2
    ELSE IF label = "Medio" THEN 1
    ELSE 0

\* f1 <= f2 for FRP cells, an absent f1 being below every value
FrpLeq(f1, f2) ==
    /\ f2.kind = "num"
    /\ f1.kind \in {"na", "num"}
    /\ f1.kind = "num" => f1.v <= f2.v

\* C17: for a fixed biome, fixed coordinates and a fixed index the tier
\* does not decrease when frp grows, an absent frp counting as the least.
C17_TierMonotone ==
    Assessed =>
        \A f2 \in FrpCells :
            FrpLeq(foco.frp, f2) =>
                TierOf(assess_foco_criticidade([foco EXCEPT !.frp = f2], BIOMES_GDF,
                                               withinNullRaises).criticidade)
                    >= TierOf(avaliacao.criticidade)

\* a row just below the threshold, in Amazonia by lookup, was classified
\* Medium: at the threshold the same row is Critical
C17_Witness ==
    /\ stage = "assessed"
    /\ foco.frp = Num(RISK_FRP_THRESHOLD - 1)
    /\ ~notna(foco.bioma)
    /\ EffectiveBiome(foco) = "Amazonia"
    /\ avaliacao.criticidade = "Medio"

\* the row of scenario A: frp at or above the threshold, no explicit
\* biome, coordinates the index resolves to Amazonia
ScenarioA(row) ==
    /\ FrpTier(row.frp) = 2
    /\ ~notna(row.bioma)
    /\ notna(row.lat) /\ notna(row.lon)
    /\ Lookup([lat |-> row.lat, lon |-> row.lon]).biome = "Amazonia"

\* C18: scenario A is classified Critical, and its reasons include an FRP
\* reason and a reason that names the sensitive biome: the sensitive-biome
\* reason or the geolocation reason that line 130 takes for its equivalent.
C18_ScenarioA ==
    Assessed /\ ScenarioA(foco) =>
        /\ avaliacao.criticidade = "Critico"
        /\ \E i \in 1 .. Len(avaliacao.razoes) :
              /\ avaliacao.razoes[i].kind = "frp_elevado"
              /\ avaliacao.razoes[i].valor # NoValue
        /\ \E i \in 1 .. Len(avaliacao.razoes) :
              /\ avaliacao.razoes[i].kind \in {"bioma_sensivel", "geolocalizacao"}
              /\ avaliacao.razoes[i].bioma = "Amazonia"

\* scenario A was classified with an index in which a second polygon
\* contains the point as well
C18_Witness ==
    /\ stage = "assessed"
    /\ ScenarioA(foco)
    /\ Cardinality(Containing(Point(foco.lon, foco.lat))) >= 2

\* C19: a sensitive effective biome makes the tier Critical if the FRP
\* criterion gave at least High and the biome is Amazonia or Pantanal, and
\* otherwise at least Medium without lowering High; so the tier is
\* Critical exactly when frp >= RISK_FRP_THRESHOLD and the effective biome
\* is Amazonia or Pantanal; a biome that is not sensitive, or unknown,
\* leaves the tier of the FRP criterion.
C19_BiomeStep ==
    Assessed =>
        LET b == EffectiveBiome(foco)
            n1 == FrpTier(foco.frp)
            n == TierOf(avaliacao.criticidade)
        IN /\ b \in SENSITIVE_BIOMES =>
                 IF n1 >= 2 /\ b \in {"Amazonia", "Pantanal"}
                 THEN n = 3
                 ELSE n = Max(n1, 1)
           /\ n = 3 <=> (n1 = 2 /\ b \in {"Amazonia", "Pantanal"})
           /\ b \notin SENSITIVE_BIOMES => n = n1

\* a row of high FRP whose explicit biome is Cerrado was classified High
C19_Witness ==
    /\ stage = "assessed"
    /\ foco.bioma = Str("Cerrado")
    /\ FrpTier(foco.frp) = 2
    /\ avaliacao.criticidade = "Alto"

\* what the classification holds when the FRP criterion begins
BeforeFrp ==
    { [nivel |-> 0, razoes |-> r] : r \in { <<>>, <<GeoReason("Amazonia")>> } }

\* C20: the FRP criterion, for a numeric frp: at or above the threshold the
\* tier becomes at least High and a reason holding the value is appended;
\* from half the threshold up to the threshold the tier becomes at least
\* Medium and no reason is appended; below half the threshold, or with frp
\* absent, tier and reasons stay as they were.
C20_FrpStep ==
    Assessed =>
        \A st \in BeforeFrp :
            LET frp == foco.frp
                out == FrpStep(frp, st)
            IN /\ frp.kind = "num" /\ frp.v >= RISK_FRP_THRESHOLD =>
                     /\ out.nivel >= 2
                     /\ Len(out.razoes) = Len(st.razoes) + 1
                     /\ SubSeq(out.razoes, 1, Len(st.razoes)) = st.razoes
                     /\ LET r == out.razoes[Len(out.razoes)]
                        IN /\ r.kind = "frp_elevado"
                           /\ r.valor[1] * FrpUnit + r.valor[2] = frp.v
               /\ frp.kind = "num" /\ 2 * frp.v >= RISK_FRP_THRESHOLD
                     /\ frp.v < RISK_FRP_THRESHOLD =>
                     /\ out.nivel = Max(st.nivel, 1)
                     /\ out.razoes = st.razoes
               /\ frp.kind = "na" \/ (frp.kind = "num" /\ 2 * frp.v < RISK_FRP_THRESHOLD) =>
                     out = st
               /\ TierOf(avaliacao.criticidade) >= FrpTier(frp)

\* a row of FRP half the threshold, with no biome known, was classified
\* Medium
C20_Witness ==
    /\ stage = "assessed"
    /\ foco.frp = Num(RISK_FRP_THRESHOLD \div 2)
    /\ EffectiveBiome(foco) = NoneBiome
    /\ avaliacao.criticidade = "Medio"

\* the labels a classification can return
Labels == {"Baixo", "Medio", "Alto", "Critico"}

\* C21: a row whose frp is present but is no number is classified as the
\* same row with frp absent: the classification returns, with a label, and
\* its tier and reasons are those of the row with frp = NA.
C21_MalformedFrpAbsent ==
    Assessed /\ notna(foco.frp) /\ foco.frp.kind = "str" =>
        LET same == assess_foco_criticidade([foco EXCEPT !.frp = NA], BIOMES_GDF,
                                            withinNullRaises)
        IN /\ avaliacao.criticidade \in Labels
           /\ avaliacao.criticidade = same.criticidade
           /\ avaliacao.nivel = same.nivel
           /\ avaliacao.razoes = same.razoes
           /\ avaliacao.razoes # <<>>

\* a row with frp "abc" and no biome known was classified Low, for the
\* reason that no criterion was met
C21_Witness ==
    /\ stage = "assessed"
    /\ foco.frp = Str("abc")
    /\ EffectiveBiome(foco) = NoneBiome
    /\ avaliacao.criticidade = "Baixo"
    /\ avaliacao.razoes = <<NoCriterion>>

(***************************************************************************)
(* Claims about requests, row order and the order of the steps.            *)
(***************************************************************************)
RECURSIVE RequestsIssued(_)
\* remote requests issued by tasks t, t + 1, ... of the batch so far
RequestsIssued(t) ==
    IF t > req.n THEN 0 ELSE calls[t].get + RequestsIssued(t + 1)

\* C22: no fetch retries: a fetch that has not reached session.get has
\* issued no request, a fetch past it has issued exactly one, whatever its
\* outcome; a batch runs one fetch per key, so a batch of n keys has issued
\* at most n requests, and exactly the number of its fetches that reached
\* session.get.
C22_NoRetry ==
    /\ \A t \in Tasks(req) :
          /\ calls[t].get <= 1
          /\ pc[t] = "new" => calls[t].get = 0
          /\ pc[t] \in {"req", "body"} => calls[t].get = 1
          /\ outcome[t] \in {"NotFound", "TransientError", "Success"} => calls[t].get = 1
    /\ RequestsIssued(1) <= req.n
    /\ RequestsIssued(1) = Cardinality({ t \in Tasks(req) : calls[t].get > 0 })

\* a batch of two keys has returned; one fetch ended with a transient
\* error, the other with success, and two requests were issued in all
C22_Witness ==
    /\ phase = "returned"
    /\ req.n = 2
    /\ \E t, u \in Tasks(req) :
          /\ outcome[t] = "TransientError"
          /\ outcome[u] = "Success"
    /\ RequestsIssued(1) = 2

\* numbers of the rows the archive or an earlier download holds for key k
RowsOfKey(k) == { Row(k, n).n : n \in 0 .. 2 }

\* C24: a range batch loads the file of a day only when the fetch of that
\* day returned success in this batch: for a day whose fetch failed or was
\* NotFound, no row of that day is in the returned Dataset and the batch
\* made no entry for its path in the cache of the loader, also when a file
\* of an earlier run stands at the path.
C24_OnlyFetchedLoaded ==
    IsRange /\ phase = "returned" =>
        \A t \in Tasks(req) :
            outcome[t] # "Success" =>
                /\ \A i \in 1 .. Len(ret.rows) : ret.rows[i].n \notin RowsOfKey(KeyId(req, t))
                /\ cache[TaskPath(req, t)] \in {NoEntry, load_data_uncached(files0[TaskPath(req, t)])}
                /\ files0[TaskPath(req, t)] = NoFile => cache[TaskPath(req, t)] = NoEntry

\* a range of two days has returned: the first day was NotFound and its
\* file of an earlier run still stands at the path, the second day
\* succeeded, and the Dataset holds the rows of the second day only
C24_Witness ==
    /\ IsRange /\ phase = "returned" /\ req.n = 2
    /\ outcome[1] = "NotFound"
    /\ files[TaskPath(req, 1)] = OldFile(KeyId(req, 1))
    /\ cache[TaskPath(req, 1)] = NoEntry
    /\ outcome[2] = "Success"
    /\ ret.tag = "df"
    /\ ret.rows = ParseRows(<<Row(KeyId(req, 2), 1), Row(KeyId(req, 2), 2)>>)

\* the target_datetime of the single fetch is off the slot boundaries
OffSlot == req.kind = "at" /\ TaskTime(req, 1)[2] % SlotStep # 0

\* C26: a 10-minute fetch whose minute is no multiple of 10 ends in its
\* first step with a result that is no path: it is never waiting for a
\* response or a body, it has called neither os.makedirs nor session.get,
\* and local storage is as it was before the call.
C26_OffSlotRejected ==
    OffSlot =>
        /\ pc[1] \in {"new", "done"}
        /\ calls[1] = NoCalls
        /\ files = files0
        /\ pc[1] = "done" => result[1] = None /\ outcome[1] = "Invalid"
        /\ pc[1] = "new" => ENABLED FetchStart(1) /\ ~ENABLED EnsureDirFails(1)

\* the fetch for minute 17 has returned None; the file of an earlier
\* download is still at its path
C26_Witness ==
    /\ OffSlot
    /\ TaskTime(req, 1)[2] = SlotStep + 7
    /\ pc[1] = "done"
    /\ result[1] = None
    /\ files[TaskPath(req, 1)] = OldFile(KeyId(req, 1))

\* the rows all hold a Timestamp, and no row stands before a later one
Descending(rows) ==
    /\ \A i \in 1 .. Len(rows) : rows[i].type = "Timestamp"
    /\ \A i, j \in 1 .. Len(rows) :
          i < j => rows[i].event_datetime >= rows[j].event_datetime

Aggregating == agg.day >= 1

\* C23: the 10-minute aggregation returns, whatever the slot files hold,
\* and the rows it returns are in descending order of their timestamp; the
\* daily-range aggregation returns the rows of the days in the order of
\* the days, each day's rows as its file lists them.
C23_RowOrder ==
    /\ Aggregating => phase # "raised"
    /\ Aggregating /\ phase = "combined" /\ ret.tag = "df" => Descending(ret.rows)
    /\ IsRange /\ phase = "returned" /\ ret.tag = "df" => ret.rows = FetchedRows(1)

\* C25: in the 10-minute aggregation the days are taken one after another:
\* the loop moves to the next day only when all slot fetches and all
\* emptiness checks of the day are done, and at that moment no fetch of the
\* next day has been issued; within a day no emptiness check is made while
\* a fetch of the day is not done; fetches are in flight only while gather
\* is awaited, at most one per slot of one day.
C25_DaysInSequence ==
    /\ [](Aggregating =>
            /\ req.start = agg.day - 1
            /\ agg.day <= agg.days
            /\ phase = "check" \/ idx > 1 => AllDone
            /\ InFlight # {} => phase = "gather"
            /\ Cardinality(InFlight) <= req.n
            /\ req.n <= HoursPerDay * SlotsPerHour)
    /\ [][agg'.day # agg.day =>
            /\ phase = "returned"
            /\ AllDone
            /\ idx > Len(results)
            /\ agg'.day = agg.day + 1
            /\ \A t \in Tasks(req') : pc'[t] = "new"]_vars

\* the second day of the list is at its second emptiness check, with both
\* its fetches done, after the first day gave a frame
C25_Witness ==
    /\ Aggregating
    /\ agg.day = 2
    /\ req.n = 2
    /\ phase = "check"
    /\ idx = 2
    /\ AllDone
    /\ Len(agg.dfs) >= 1

====
